---- MODULE Spec2Model ----
(***************************************************************************)
(* Quote lifecycle of the invoicing backend: create / update / share /     *)
(* sign handlers of routers/quotes.py and routers/share.py, the settings   *)
(* update of routers/settings.py, over a store of users, clients, quotes   *)
(* and quote items.                                                        *)
(*                                                                         *)
(* Money is counted in cents, tax rates in whole percent, time in days.    *)
(* A Decimal the code computes without quantizing it is held as its whole  *)
(* cents and, in sub_cent, the hundredths of a cent beyond them.           *)
(***************************************************************************)
EXTENDS Integers, Sequences, FiniteSets, TLC

VARIABLES
    users,      \* user id -> [tax_status]            (table "user")
    quotes,     \* quote id (1..n, creation order) -> quote row with its items
    now,        \* wall clock, in days
    next_token, \* number of share tokens issued so far (uuid4 draws)
    next_item,  \* number of quote item ids issued so far (uuid4 draws)
    last,       \* the response of the request handled last
    inflight    \* per worker process: the request it is in the middle of

vars == <<users, quotes, now, next_token, next_item, last, inflight>>

----------------------------------------------------------------------------
(* Bounds of the model *)

MaxQuotes == 1      \* quotes created, in the single-quote specifications
MaxListed == 2      \* quotes created, in the listing specification
MaxTokens == 2      \* share tokens issued
MaxItemIds == 2     \* quote item ids issued
MaxTime == 31       \* days on the clock

(* Program constants *)

ShareTokenDays == 30

----------------------------------------------------------------------------
(* Values *)

\* Python None for optional numbers, timestamps, tokens and ids
None == 0 - 1
NoStr == "None"

UserIds == {"A", "B"}
ClientIds == {"cA", "cB"}

\* table "client": each client row belongs to one user
ClientOwner(c) == IF c = "cA" THEN "A" ELSE "B"

FRANCHISE == "FRANCHISE"
ASSUJETTI == "ASSUJETTI"
TaxStatus == {FRANCHISE, ASSUJETTI}

DRAFT == "Draft"
SENT == "Sent"
ACCEPTED == "Accepted"
REJECTED == "Rejected"
SIGNED == "Signed"
QuoteStatus == {DRAFT, SENT, ACCEPTED, REJECTED, SIGNED}

\* Outcomes at the HTTP boundary
OK == "200"
CREATED == "201"
BAD_REQUEST == "400"
FORBIDDEN == "403"
NOT_FOUND == "404"
GONE == "410"

Workers == {"w1", "w2"}

QuoteIdsOf(store) == DOMAIN store
Exists(store, qid) == qid \in DOMAIN store

RECURSIVE SumTotals(_)
SumTotals(items) ==
    IF items = <<>> THEN 0 ELSE Head(items).total + SumTotals(Tail(items))

Max(a, b) == IF a >= b THEN a ELSE b

----------------------------------------------------------------------------
(* calculate_quote_totals: subtotal, tax and total of a quote row.         *)
(* Line 28 divides a Decimal product by Decimal("100.00") and keeps every  *)
(* digit of the quotient: tax_amount and total are the whole cents of the  *)
(* two values, sub_cent the hundredths of a cent both carry beyond them.   *)

calculate_quote_totals_accumulate(quote, items) ==
    LET subtotal == quote.subtotal + SumTotals(items)
        discount_amount == IF quote.discount_value # None /\ quote.discount_value # 0
                           THEN quote.discount_value ELSE 0
        taxable_amount == Max(subtotal - discount_amount, 0)
        tax_amount == (taxable_amount * quote.tax_rate) \div 100
        total == taxable_amount + tax_amount
    IN  [quote EXCEPT !.subtotal = subtotal,
                      !.tax_amount = tax_amount,
                      !.total = total,
                      !.sub_cent = (taxable_amount * quote.tax_rate) % 100]

calculate_quote_totals(quote, items) ==
    LET subtotal == SumTotals(items)
        discount_amount == IF quote.discount_value # None /\ quote.discount_value # 0
                           THEN quote.discount_value ELSE 0
        taxable_amount == Max(subtotal - discount_amount, 0)
        tax_amount == (taxable_amount * quote.tax_rate) \div 100
        total == taxable_amount + tax_amount
    IN  [quote EXCEPT !.subtotal = subtotal,
                      !.tax_amount = tax_amount,
                      !.total = total,
                      !.sub_cent = (taxable_amount * quote.tax_rate) % 100]

----------------------------------------------------------------------------
(* Python truthiness of the optional values the handlers test with `if x:` *)

TruthyStr(s) == s # NoStr /\ s # ""
TruthyNum(n) == n # None /\ n # 0
OrNum(n, d) == IF TruthyNum(n) THEN n ELSE d
OrStr(s, d) == IF TruthyStr(s) THEN s ELSE d

----------------------------------------------------------------------------
(* Responses *)

\* what the client of the last request got back; seq alternates with every
\* request, so that two equal responses in a row are still two requests
Response(op, user, target, status) ==
    [op |-> op, user |-> user, target |-> target, status |-> status,
     seq |-> 1 - last.seq]

NoResponse ==
    [op |-> "none", user |-> NoStr, target |-> None, status |-> NoStr, seq |-> 0]

\* this step handles a request of kind op
Handled(op) == last' # last /\ last'.op = op

Idle == [pc |-> "idle"]

----------------------------------------------------------------------------
(* create_quote *)

\* the client row exists and belongs to the caller
ClientOwned(user, client_id) ==
    client_id \in ClientIds /\ ClientOwner(client_id) = user

\* "Q-<millis>" when the caller supplies no number
GenerateQuoteNumber(quote_number, t) ==
    IF TruthyStr(quote_number) THEN quote_number ELSE "Q-" \o ToString(t)

EffectiveTaxRateAsGiven(tax_status, tax_rate) == tax_rate

\* FRANCHISE forces the rate to 0
EffectiveTaxRate(tax_status, tax_rate) ==
    IF tax_status = FRANCHISE THEN 0 ELSE tax_rate

\* the item rows of a new quote; ids are drawn in list order after `base`
RECURSIVE CreateItems(_, _)
CreateItems(items_in, base) ==
    IF items_in = <<>> THEN <<>>
    ELSE LET item_in == Head(items_in)
         IN  <<[id |-> base + 1,
                description |-> item_in.description,
                quantity |-> item_in.quantity,
                unit_price |-> item_in.unit_price,
                total |-> item_in.quantity * item_in.unit_price,
                order |-> item_in.order]>>
             \o CreateItems(Tail(items_in), base + 1)

\* the Quote object and its items before the totals are calculated
UnsavedQuote(user, quote_data, t, base) ==
    [user_id |-> user,
     client_id |-> quote_data.client_id,
     quote_number |-> GenerateQuoteNumber(quote_data.quote_number, t),
     currency |-> quote_data.currency,
     tax_rate |-> EffectiveTaxRate(users[user].tax_status, quote_data.tax_rate),
     discount_value |-> quote_data.discount_value,
     status |-> DRAFT,
     tax_status |-> users[user].tax_status,
     is_paid |-> FALSE,
     payment_date |-> None,
     subtotal |-> 0,
     tax_amount |-> 0,
     total |-> 0,
     sub_cent |-> 0,
     share_token |-> None,
     share_token_expires_at |-> None,
     sent_at |-> None,
     signed_at |-> None,
     signature_data |-> NoStr,
     signer_name |-> NoStr,
     signer_ip |-> NoStr,
     created_at |-> t,
     updated_at |-> t,
     items |-> CreateItems(quote_data.items, base)]

NewQuote(user, quote_data, t, base) ==
    LET quote == UnsavedQuote(user, quote_data, t, base)
    IN  calculate_quote_totals(quote, quote.items)

create_quote(user, quote_data) ==
    /\ next_item + Len(quote_data.items) <= MaxItemIds
    /\ IF ~ClientOwned(user, quote_data.client_id)
       THEN /\ last' = Response("create", user, None, NOT_FOUND)
            /\ UNCHANGED <<quotes, next_item>>
       ELSE /\ quotes' = Append(quotes, NewQuote(user, quote_data, now, next_item))
            /\ next_item' = next_item + Len(quote_data.items)
            /\ last' = Response("create", user, Len(quotes) + 1, CREATED)
    /\ UNCHANGED <<users, now, next_token, inflight>>

----------------------------------------------------------------------------
(* update_quote *)

QuoteOwnedByAnyone(store, user, quote_id) == Exists(store, quote_id)

\* the quote row exists and belongs to the caller
QuoteOwned(store, user, quote_id) ==
    Exists(store, quote_id) /\ store[quote_id].user_id = user

IsLockedNever(quote) == FALSE

\* inalterability check
IsLocked(quote) == quote.is_paid

ItemIds(items) == {items[i].id : i \in 1..Len(items)}

ItemById(items, id) ==
    LET i == CHOOSE j \in 1..Len(items) : items[j].id = id IN items[i]

\* an existing item patched in place with the provided fields of item_in
PatchItem(existing_item, item_in) ==
    LET description == IF TruthyStr(item_in.description)
                       THEN item_in.description ELSE existing_item.description
        quantity == IF TruthyNum(item_in.quantity)
                    THEN item_in.quantity ELSE existing_item.quantity
        unit_price == IF TruthyNum(item_in.unit_price)
                      THEN item_in.unit_price ELSE existing_item.unit_price
        order == IF item_in.order # None THEN item_in.order ELSE existing_item.order
    IN  [id |-> existing_item.id,
         description |-> description,
         quantity |-> quantity,
         unit_price |-> unit_price,
         total |-> quantity * unit_price,
         order |-> order]

InsertItemAsGiven(item_in, id) ==
    [id |-> id,
     description |-> item_in.description,
     quantity |-> item_in.quantity,
     unit_price |-> item_in.unit_price,
     total |-> OrNum(item_in.quantity, 0) * OrNum(item_in.unit_price, 0),
     order |-> item_in.order]

InsertItemKeepId(item_in, id) ==
    [id |-> IF TruthyNum(item_in.id) THEN item_in.id ELSE id,
     description |-> OrStr(item_in.description, ""),
     quantity |-> OrNum(item_in.quantity, 1),
     unit_price |-> OrNum(item_in.unit_price, 0),
     total |-> OrNum(item_in.quantity, 0) * OrNum(item_in.unit_price, 0),
     order |-> OrNum(item_in.order, 0)]

\* a new item row for an entry with no id or an id the quote does not have
InsertItem(item_in, id) ==
    [id |-> id,
     description |-> OrStr(item_in.description, ""),
     quantity |-> OrNum(item_in.quantity, 1),
     unit_price |-> OrNum(item_in.unit_price, 0),
     total |-> OrNum(item_in.quantity, 0) * OrNum(item_in.unit_price, 0),
     order |-> OrNum(item_in.order, 0)]

RECURSIVE ReconcileItemsKeepExisting(_, _, _, _)
ReconcileItemsKeepExisting(all_items, existing, incoming, base) ==
    IF incoming = <<>> THEN <<>>
    ELSE LET item_in == Head(incoming)
         IN  IF TruthyNum(item_in.id) /\ item_in.id \in existing
             THEN <<PatchItem(ItemById(all_items, item_in.id), item_in)>>
                  \o ReconcileItemsKeepExisting(all_items, existing,
                                                Tail(incoming), base)
             ELSE <<InsertItem(item_in, base + 1)>>
                  \o ReconcileItemsKeepExisting(all_items, existing,
                                                Tail(incoming), base + 1)

\* the loop over quote_data.items: `existing` is what is left of the
\* existing_items dict, `base` the number of item ids drawn so far
RECURSIVE ReconcileItems(_, _, _, _)
ReconcileItems(all_items, existing, incoming, base) ==
    IF incoming = <<>> THEN <<>>
    ELSE LET item_in == Head(incoming)
         IN  IF TruthyNum(item_in.id) /\ item_in.id \in existing
             THEN <<PatchItem(ItemById(all_items, item_in.id), item_in)>>
                  \o ReconcileItems(all_items, existing \ {item_in.id},
                                    Tail(incoming), base)
             ELSE <<InsertItem(item_in, base + 1)>>
                  \o ReconcileItems(all_items, existing, Tail(incoming), base + 1)

\* number of item ids an items payload draws on a quote
RECURSIVE NewItemCount(_, _)
NewItemCount(existing, incoming) ==
    IF incoming = <<>> THEN 0
    ELSE LET item_in == Head(incoming)
         IN  IF TruthyNum(item_in.id) /\ item_in.id \in existing
             THEN NewItemCount(existing \ {item_in.id}, Tail(incoming))
             ELSE 1 + NewItemCount(existing, Tail(incoming))

\* optional payload values that are not numbers or strings are sequences of
\* length 0 (absent) or 1 (present)
HasItems(quote_data) == Len(quote_data.items) = 1

UpdateHeaderSignedFinal(quote, quote_data) ==
    [quote EXCEPT
        !.client_id = IF TruthyStr(quote_data.client_id)
                      THEN quote_data.client_id ELSE @,
        !.quote_number = IF TruthyStr(quote_data.quote_number)
                         THEN quote_data.quote_number ELSE @,
        !.currency = IF TruthyStr(quote_data.currency)
                     THEN quote_data.currency ELSE @,
        !.status = IF TruthyStr(quote_data.status) /\ @ # SIGNED
                   THEN quote_data.status ELSE @]

UpdateHeader(quote, quote_data) ==
    [quote EXCEPT
        !.client_id = IF TruthyStr(quote_data.client_id)
                      THEN quote_data.client_id ELSE @,
        !.quote_number = IF TruthyStr(quote_data.quote_number)
                         THEN quote_data.quote_number ELSE @,
        !.currency = IF TruthyStr(quote_data.currency)
                     THEN quote_data.currency ELSE @,
        !.status = IF TruthyStr(quote_data.status)
                   THEN quote_data.status ELSE @]

UpdatePaymentNoStamp(quote, quote_data, t) ==
    IF Len(quote_data.is_paid) = 0 THEN quote
    ELSE [quote EXCEPT !.is_paid = quote_data.is_paid[1]]

UpdatePayment(quote, quote_data, t) ==
    IF Len(quote_data.is_paid) = 0 THEN quote
    ELSE LET paid == quote_data.is_paid[1]
         IN  [quote EXCEPT
                 !.is_paid = paid,
                 !.payment_date = IF paid /\ @ = None THEN t ELSE @]

UpdateTaxRateByUser(quote, quote_data) ==
    IF quote_data.tax_rate = None THEN quote
    ELSE [quote EXCEPT
             !.tax_rate = IF users[quote.user_id].tax_status = FRANCHISE
                          THEN 0 ELSE quote_data.tax_rate]

UpdateTaxRate(quote, quote_data) ==
    IF quote_data.tax_rate = None THEN quote
    ELSE [quote EXCEPT
             !.tax_rate = IF quote.tax_status = FRANCHISE
                          THEN 0 ELSE quote_data.tax_rate]

UpdateItemsAlways(quote, quote_data, base) ==
    LET incoming == IF HasItems(quote_data) THEN quote_data.items[1] ELSE <<>>
        new_items_list == ReconcileItems(quote.items, ItemIds(quote.items),
                                         incoming, base)
    IN  calculate_quote_totals([quote EXCEPT !.items = new_items_list],
                               new_items_list)

UpdateItems(quote, quote_data, base) ==
    IF ~HasItems(quote_data) THEN quote
    ELSE LET new_items_list == ReconcileItems(quote.items, ItemIds(quote.items),
                                              quote_data.items[1], base)
         IN  calculate_quote_totals([quote EXCEPT !.items = new_items_list],
                                    new_items_list)

\* the row and items the handler holds when it reaches db.commit()
ApplyUpdate(quote, quote_data, t, base) ==
    UpdateItems(
        UpdateTaxRate(
            UpdatePayment(
                UpdateHeader(quote, quote_data), quote_data, t), quote_data),
        quote_data, base)

DrawnItemIds(quote, quote_data) ==
    IF HasItems(quote_data)
    THEN NewItemCount(ItemIds(quote.items), quote_data.items[1]) ELSE 0

\* the response to an update request, with the payload it answers
UpdateResponse(user, quote_id, quote_data, status) ==
    Response("update", user, quote_id, status) @@ [request |-> quote_data]

update_quote(user, quote_id, quote_data) ==
    /\ IF ~QuoteOwned(quotes, user, quote_id)
       THEN /\ last' = UpdateResponse(user, quote_id, quote_data, NOT_FOUND)
            /\ UNCHANGED <<quotes, next_item>>
       ELSE IF IsLocked(quotes[quote_id])
       THEN /\ last' = UpdateResponse(user, quote_id, quote_data, FORBIDDEN)
            /\ UNCHANGED <<quotes, next_item>>
       ELSE /\ next_item + DrawnItemIds(quotes[quote_id], quote_data) <= MaxItemIds
            /\ quotes' = [quotes EXCEPT
                            ![quote_id] = ApplyUpdate(@, quote_data, now, next_item)]
            /\ next_item' = next_item + DrawnItemIds(quotes[quote_id], quote_data)
            /\ last' = UpdateResponse(user, quote_id, quote_data, OK)
    /\ UNCHANGED <<users, now, next_token, inflight>>

----------------------------------------------------------------------------
(* generate_share_link *)

ShareQuoteForwardOnly(quote, token, t) ==
    [quote EXCEPT !.share_token = token,
                  !.share_token_expires_at = t + ShareTokenDays,
                  !.status = IF @ = DRAFT THEN SENT ELSE @,
                  !.sent_at = t,
                  !.updated_at = t]

ShareQuoteNoSentAt(quote, token, t) ==
    [quote EXCEPT !.share_token = token,
                  !.share_token_expires_at = t + ShareTokenDays,
                  !.status = SENT,
                  !.updated_at = t]

ShareQuoteKeepToken(quote, token, t) ==
    [quote EXCEPT !.share_token = IF @ = None THEN token ELSE @,
                  !.share_token_expires_at = t + ShareTokenDays,
                  !.status = SENT,
                  !.sent_at = t,
                  !.updated_at = t]

ShareQuoteSameToken(quote, token, t) ==
    [quote EXCEPT !.share_token = 1,
                  !.share_token_expires_at = t + ShareTokenDays,
                  !.status = SENT,
                  !.sent_at = t,
                  !.updated_at = t]

ShareQuote(quote, token, t) ==
    [quote EXCEPT !.share_token = token,
                  !.share_token_expires_at = t + ShareTokenDays,
                  !.status = SENT,
                  !.sent_at = t,
                  !.updated_at = t]

generate_share_link(user, quote_id) ==
    /\ next_token < MaxTokens
    /\ IF ~QuoteOwned(quotes, user, quote_id)
       THEN /\ last' = Response("share", user, quote_id, NOT_FOUND)
            /\ UNCHANGED <<quotes, next_token>>
       ELSE /\ quotes' = [quotes EXCEPT
                            ![quote_id] = ShareQuote(@, next_token + 1, now)]
            /\ next_token' = next_token + 1
            /\ last' = Response("share", user, quote_id, OK)
    /\ UNCHANGED <<users, now, next_item, inflight>>

----------------------------------------------------------------------------
(* sign_quote *)

\* select(Quote).where(Quote.share_token == token).first()
QuotesByToken(store, token) ==
    {q \in DOMAIN store : store[q].share_token = token}

IsExpiredNever(quote, t) == FALSE

IsExpired(quote, t) ==
    quote.share_token_expires_at # None /\ quote.share_token_expires_at < t

IsSignedNever(quote) == FALSE

IsSigned(quote) == quote.signed_at # None

SignQuoteKeepStatus(quote, sign_data, t) ==
    [quote EXCEPT !.signed_at = t,
                  !.signature_data = sign_data.signature_data,
                  !.signer_name = sign_data.signer_name,
                  !.signer_ip = sign_data.client_ip,
                  !.updated_at = t]

SignQuote(quote, sign_data, t) ==
    [quote EXCEPT !.signed_at = t,
                  !.signature_data = sign_data.signature_data,
                  !.signer_name = sign_data.signer_name,
                  !.signer_ip = sign_data.client_ip,
                  !.status = SIGNED,
                  !.updated_at = t]

SignCheckOneError(store, token, t) ==
    IF QuotesByToken(store, token) = {} THEN BAD_REQUEST
    ELSE LET quote == store[CHOOSE q \in QuotesByToken(store, token) : TRUE]
         IN  IF IsExpired(quote, t) THEN BAD_REQUEST
             ELSE IF IsSigned(quote) THEN BAD_REQUEST
             ELSE OK

\* the status the checks of sign_quote answer for a token, OK when they pass
SignCheck(store, token, t) ==
    IF QuotesByToken(store, token) = {} THEN NOT_FOUND
    ELSE LET quote == store[CHOOSE q \in QuotesByToken(store, token) : TRUE]
         IN  IF IsExpired(quote, t) THEN GONE
             ELSE IF IsSigned(quote) THEN BAD_REQUEST
             ELSE OK

sign_quote(token, sign_data) ==
    /\ LET status == SignCheck(quotes, token, now)
       IN  /\ last' = Response("sign", NoStr, token, status)
           /\ IF status # OK
              THEN UNCHANGED quotes
              ELSE \E q \in QuotesByToken(quotes, token) :
                      quotes' = [quotes EXCEPT ![q] = SignQuote(@, sign_data, now)]
    /\ UNCHANGED <<users, now, next_token, next_item, inflight>>

----------------------------------------------------------------------------
(* get_public_quote and get_public_quote_pdf: reads by share token; the     *)
(* expiration check of both is commented out in the source                  *)

PublicQuote(store, token) ==
    IF QuotesByToken(store, token) = {} THEN NOT_FOUND
    ELSE LET quote == store[CHOOSE q \in QuotesByToken(store, token) : TRUE]
         IN  IF quote.client_id \notin ClientIds THEN NOT_FOUND ELSE OK

PublicQuotePdf(store, token) ==
    IF QuotesByToken(store, token) = {} THEN NOT_FOUND ELSE OK

get_public_quote(token) ==
    /\ last' = Response("public", NoStr, token, PublicQuote(quotes, token))
    /\ UNCHANGED <<users, quotes, now, next_token, next_item, inflight>>

get_public_quote_pdf(token) ==
    /\ last' = Response("public_pdf", NoStr, token, PublicQuotePdf(quotes, token))
    /\ UNCHANGED <<users, quotes, now, next_token, next_item, inflight>>

----------------------------------------------------------------------------
(* update_settings: the caller's fiscal status is overwritten by the payload *)

update_settings(user, tax_status) ==
    /\ users' = [users EXCEPT ![user].tax_status = tax_status]
    /\ last' = Response("settings", user, None, OK)
    /\ UNCHANGED <<quotes, now, next_token, next_item, inflight>>

----------------------------------------------------------------------------
(* list_quotes and get_quote *)

\* the ids of a set of rows, ordered by created_at descending (ids are
\* handed out in creation order)
RECURSIVE OrderDesc(_)
OrderDesc(ids) ==
    IF ids = {} THEN <<>>
    ELSE LET m == CHOOSE i \in ids : \A j \in ids : j <= i
         IN  <<m>> \o OrderDesc(ids \ {m})

QuotesOfAnyone(store, user) == DOMAIN store

QuotesOf(store, user) == {q \in DOMAIN store : store[q].user_id = user}

\* .offset(offset).limit(limit)
Page(seq, offset, limit) ==
    SubSeq(seq, offset + 1, IF offset + limit <= Len(seq) THEN offset + limit ELSE Len(seq))

ListQuotes(store, user, page, limit) ==
    [quotes |-> Page(OrderDesc(QuotesOf(store, user)), (page - 1) * limit, limit),
     total |-> Cardinality(QuotesOf(store, user))]

GetQuote(store, user, quote_id) ==
    IF ~QuoteOwned(store, user, quote_id) THEN NOT_FOUND ELSE OK

list_quotes(user, page, limit) ==
    /\ last' = [op |-> "list", user |-> user, target |-> None, status |-> OK,
                seq |-> 1 - last.seq, page |-> page, limit |-> limit,
                body |-> ListQuotes(quotes, user, page, limit)]
    /\ UNCHANGED <<users, quotes, now, next_token, next_item, inflight>>

get_quote(user, quote_id) ==
    /\ last' = Response("get", user, quote_id, GetQuote(quotes, user, quote_id))
    /\ UNCHANGED <<users, quotes, now, next_token, next_item, inflight>>

\* GET /quotes?search=<term>: list_quotes declares the parameters page and
\* limit only, so the term is dropped and the defaults page 1, limit 10 apply
DefaultLimit == 10

search_quotes(user, search) ==
    /\ last' = [op |-> "search", user |-> user, target |-> None, status |-> OK,
                seq |-> 1 - last.seq, search |-> search,
                body |-> ListQuotes(quotes, user, 1, DefaultLimit)]
    /\ UNCHANGED <<users, quotes, now, next_token, next_item, inflight>>

----------------------------------------------------------------------------
(* export_revenue: the paid quotes of the caller as rows, latest payment    *)
(* first; rows of equal payment_date come in an order the database chooses  *)

\* f"{x:.2f}" of an amount given in cents and hundredths of a cent, in cents
Format2(cents, sub_cent) ==
    IF sub_cent > 50 THEN cents + 1
    ELSE IF sub_cent < 50 THEN cents
    ELSE IF cents % 2 = 0 THEN cents ELSE cents + 1

PaidQuotesOfAnyone(store, user) == {q \in DOMAIN store : store[q].is_paid}

PaidQuotesOf(store, user) ==
    {q \in DOMAIN store : store[q].user_id = user /\ store[q].is_paid}

\* the orders .order_by(Quote.payment_date.desc()) can return a set of rows in
ByPaymentDateDesc(store, ids) ==
    {o \in [1..Cardinality(ids) -> ids] :
        /\ \A i \in DOMAIN o : \A j \in DOMAIN o : i # j => o[i] # o[j]
        /\ \A i \in DOMAIN o : \A j \in DOMAIN o :
              i < j => store[o[i]].payment_date >= store[o[j]].payment_date}

ExportRow(store, q) ==
    [quote |-> q,
     payment_date |-> store[q].payment_date,
     quote_number |-> store[q].quote_number,
     client |-> store[q].client_id,
     subtotal |-> store[q].subtotal,
     total |-> Format2(store[q].total, store[q].sub_cent)]

export_revenue(user) ==
    /\ \E o \in ByPaymentDateDesc(quotes, PaidQuotesOf(quotes, user)) :
          last' = [op |-> "export", user |-> user, target |-> None,
                   status |-> OK, seq |-> 1 - last.seq,
                   rows |-> [i \in 1..Cardinality(PaidQuotesOf(quotes, user))
                                |-> ExportRow(quotes, o[i])]]
    /\ UNCHANGED <<users, quotes, now, next_token, next_item, inflight>>

----------------------------------------------------------------------------
(* get_dashboard_metrics: the franchise threshold. Revenue is counted in    *)
(* hundredths of a cent, the unit of the unquantized totals.                *)

DaysPerYear == 365

\* day 0 of a behaviour is the 2nd of December: day 30 is the 1st of January
StartDay == 335

\* extract('year', ...) of a time in days
YearOf(t) == (StartDay + t) \div DaysPerYear

\* base_threshold and max_threshold, in euros as in the source
BaseThreshold == 37500
MaxThreshold == 41250

UnitsPerEuro == 10000

CollectedQuotesAnyYear(store, user, t) ==
    {q \in DOMAIN store : store[q].user_id = user /\ store[q].is_paid}

\* the rows the collected-revenue query selects
CollectedQuotes(store, user, t) ==
    {q \in DOMAIN store :
        /\ store[q].user_id = user
        /\ store[q].is_paid
        /\ store[q].payment_date # None
        /\ YearOf(store[q].payment_date) = YearOf(t)}

\* func.sum(Quote.total) over a set of rows
RECURSIVE SumTotal(_, _)
SumTotal(store, ids) ==
    IF ids = {} THEN 0
    ELSE LET q == CHOOSE i \in ids : TRUE
         IN  store[q].total * 100 + store[q].sub_cent + SumTotal(store, ids \ {q})

\* the sum, or 0.0 when no row is selected
CollectedRevenue(store, user, t) == SumTotal(store, CollectedQuotes(store, user, t))

ThresholdStatusInclusive(collected_revenue, tax_status) ==
    IF tax_status = ASSUJETTI THEN "assujetti"
    ELSE IF collected_revenue >= MaxThreshold * UnitsPerEuro THEN "exceeded"
    ELSE IF collected_revenue >= BaseThreshold * UnitsPerEuro THEN "warning"
    ELSE "ok"

\* float(collected_revenue) compared with the thresholds: the conversion of
\* a sum below 2^53 hundredths of a cent keeps its order with 37500 and 41250
ThresholdStatus(collected_revenue, tax_status) ==
    IF tax_status = ASSUJETTI THEN "assujetti"
    ELSE IF collected_revenue > MaxThreshold * UnitsPerEuro THEN "exceeded"
    ELSE IF collected_revenue > BaseThreshold * UnitsPerEuro THEN "warning"
    ELSE "ok"

get_dashboard_metrics(user) ==
    /\ LET collected_revenue == CollectedRevenue(quotes, user, now)
       IN  last' = [op |-> "dashboard", user |-> user, target |-> None,
                    status |-> OK, seq |-> 1 - last.seq,
                    revenue |-> collected_revenue,
                    threshold_status |->
                        ThresholdStatus(collected_revenue, users[user].tax_status)]
    /\ UNCHANGED <<users, quotes, now, next_token, next_item, inflight>>

----------------------------------------------------------------------------
(* Time passes between requests *)

Tick(days) ==
    /\ now + days <= MaxTime
    /\ now' = now + days
    /\ UNCHANGED <<users, quotes, next_token, next_item, last, inflight>>

----------------------------------------------------------------------------
(* Request inputs *)

Tokens == 1..MaxTokens

ItemIn(description, quantity, unit_price, order) ==
    [id |-> None, description |-> description, quantity |-> quantity,
     unit_price |-> unit_price, order |-> order]

CreatePayload(client_id, tax_rate, discount_value) ==
    [client_id |-> client_id, quote_number |-> NoStr, currency |-> "EUR",
     tax_rate |-> tax_rate, discount_value |-> discount_value,
     items |-> <<ItemIn("Service", 1, 10000, 0)>>]

EmptyUpdate ==
    [client_id |-> NoStr, quote_number |-> NoStr, currency |-> NoStr,
     status |-> NoStr, is_paid |-> <<>>, tax_rate |-> None, items |-> <<>>]

SignInputs ==
    {[signer_name |-> "Jean Dupont", signature_data |-> "png-1", client_ip |-> "10.0.0.1"],
     [signer_name |-> "Marie Curie", signature_data |-> "png-2", client_ip |-> "10.0.0.2"]}

TickDays == {ShareTokenDays, ShareTokenDays + 1}

----------------------------------------------------------------------------
(* The store after the migrations and the creation of two users *)

Init ==
    /\ users = [u \in UserIds |-> [tax_status |-> FRANCHISE]]
    /\ quotes = <<>>
    /\ now = 0
    /\ next_token = 0
    /\ next_item = 0
    /\ last = NoResponse
    /\ inflight = [w \in Workers |-> Idle]

----------------------------------------------------------------------------
(* Spec: paid lock and ownership. User A creates quotes; both users send   *)
(* update and share requests against them, anyone signs.                   *)

LockCreates == {CreatePayload(c, 20, None) : c \in ClientIds}

LockUpdates ==
    {[EmptyUpdate EXCEPT !.status = ACCEPTED],
     [EmptyUpdate EXCEPT !.is_paid = <<TRUE>>],
     [EmptyUpdate EXCEPT !.is_paid = <<FALSE>>],
     [EmptyUpdate EXCEPT !.is_paid = <<TRUE>>, !.status = SIGNED],
     [EmptyUpdate EXCEPT !.items = <<<<ItemIn("Hacked", 1, 100, None)>>>>]}

\* what the user who owns no quote sends
ForeignUpdates ==
    {d \in LockUpdates : d.status = ACCEPTED \/ d.items # <<>>}

LockSigns == {d \in SignInputs : d.signer_name = "Jean Dupont"}

\* quote ids a request may name: those of the store and one that never exists
QuoteIdInputs == 1..(MaxQuotes + 1)

Next ==
    \/ \E d \in LockCreates :
          Len(quotes) < MaxQuotes /\ create_quote("A", d)
    \/ \E q \in QuoteIdInputs, d \in LockUpdates : update_quote("A", q, d)
    \/ \E q \in QuoteIdInputs, d \in ForeignUpdates : update_quote("B", q, d)
    \/ \E u \in UserIds, q \in QuoteIdInputs : generate_share_link(u, q)
    \/ \E t \in Tokens, d \in LockSigns : sign_quote(t, d)

Spec == Init /\ [][Next]_vars

\* the header fields of a quote row (everything but the share and signature
\* evidence and the timestamps)
Header(quote) ==
    [client_id |-> quote.client_id, quote_number |-> quote.quote_number,
     currency |-> quote.currency, status |-> quote.status,
     tax_rate |-> quote.tax_rate, tax_status |-> quote.tax_status,
     discount_value |-> quote.discount_value, subtotal |-> quote.subtotal,
     tax_amount |-> quote.tax_amount, total |-> quote.total,
     is_paid |-> quote.is_paid, payment_date |-> quote.payment_date]

\* C1: an update request by the owner of a paid quote, whatever it carries, is
\* answered 403 (Locked) and leaves the stored quote and its items as they were.
C1_LockedUpdateRejected ==
    [][\A q \in DOMAIN quotes :
          (/\ quotes[q].is_paid
           /\ Handled("update") /\ last'.target = q
           /\ last'.user = quotes[q].user_id)
          => (/\ last'.status = FORBIDDEN
              /\ Header(quotes'[q]) = Header(quotes[q])
              /\ quotes'[q].items = quotes[q].items
              /\ quotes' = quotes)]_vars

\* C1 witness: the owner's update of a paid quote has just been refused.
C1_Witness ==
    /\ last.op = "update" /\ last.status = FORBIDDEN
    /\ Exists(quotes, last.target)
    /\ quotes[last.target].user_id = last.user
    /\ quotes[last.target].is_paid
    /\ quotes[last.target].items # <<>>

\* C2: once is_paid is true, no later request (update, share, sign) changes
\* the header fields, status included, or the items of the quote.
C2_PaidQuoteImmutable ==
    [][\A q \in DOMAIN quotes :
          quotes[q].is_paid
          => (/\ Header(quotes'[q]) = Header(quotes[q])
              /\ quotes'[q].items = quotes[q].items)]_vars

\* C7: an update or share request for a quote of another user is answered 404,
\* as for an id that does not exist, also when the quote is paid, and leaves
\* the store as it was.
C7_ForeignQuoteNotFound ==
    [][((Handled("update") \/ Handled("share"))
        /\ (last'.target \notin DOMAIN quotes
            \/ quotes[last'.target].user_id # last'.user))
       => (last'.status = NOT_FOUND /\ quotes' = quotes)]_vars

\* C7 witness: a non-owner's update of an existing paid quote was answered 404.
C7_Witness ==
    /\ last.op = "update" /\ last.status = NOT_FOUND
    /\ Exists(quotes, last.target)
    /\ quotes[last.target].user_id # last.user
    /\ quotes[last.target].is_paid
    /\ quotes[last.target].share_token # None

----------------------------------------------------------------------------
(* SpecSign: the share and sign workflow over time. User A creates and     *)
(* shares quotes, anyone signs with either of two signatures, days pass.   *)

NextSign ==
    \/ Len(quotes) < MaxQuotes /\ create_quote("A", CreatePayload("cA", 20, None))
    \/ \E q \in 1..MaxQuotes : generate_share_link("A", q)
    \/ \E t \in Tokens, d \in SignInputs : sign_quote(t, d)
    \/ \E d \in TickDays : Tick(d)

SpecSign == Init /\ [][NextSign]_vars

\* the signature evidence of a quote row
Evidence(quote) ==
    [signed_at |-> quote.signed_at, signature_data |-> quote.signature_data,
     signer_name |-> quote.signer_name, signer_ip |-> quote.signer_ip]

\* the token names a quote and has not expired
ValidToken(token) ==
    \E q \in DOMAIN quotes :
        /\ quotes[q].share_token = token
        /\ quotes[q].share_token_expires_at >= now

\* C3: of two sign requests in a row with the same valid token, the first
\* succeeds and sets status Signed, the second is answered 400 (already signed)
\* and leaves signed_at, signature_data, signer_name and signer_ip as stored.
C3_SignTwice ==
    [][/\ (Handled("sign") /\ last'.status = OK)
          => \E q \in DOMAIN quotes :
                /\ quotes[q].share_token = last'.target
                /\ quotes'[q].status = SIGNED
                /\ quotes'[q].signed_at = now
       /\ (/\ last.op = "sign" /\ last.status = OK
           /\ Handled("sign") /\ last'.target = last.target
           /\ ValidToken(last.target))
          => (/\ last'.status = BAD_REQUEST
              /\ \A q \in DOMAIN quotes : Evidence(quotes'[q]) = Evidence(quotes[q]))]_vars

\* C3 witness: a second sign with the valid token of a signed quote was refused.
C3_Witness ==
    /\ last.op = "sign" /\ last.status = BAD_REQUEST
    /\ ValidToken(last.target)
    /\ \E q \in DOMAIN quotes :
          /\ quotes[q].share_token = last.target
          /\ quotes[q].status = SIGNED
          /\ quotes[q].signed_at # None

----------------------------------------------------------------------------
(* SpecList: both users create quotes, change their status, list and get.  *)

ListedIdInputs == 1..(MaxListed + 1)

NextList ==
    \/ \E u \in UserIds, c \in ClientIds :
          Len(quotes) < MaxListed /\ create_quote(u, CreatePayload(c, 20, None))
    \/ \E u \in UserIds, q \in ListedIdInputs :
          update_quote(u, q, [EmptyUpdate EXCEPT !.status = ACCEPTED])
    \/ \E u \in UserIds, q \in ListedIdInputs : get_quote(u, q)
    \/ \E u \in UserIds, p \in 1..2, l \in 1..2 : list_quotes(u, p, l)

SpecList == Init /\ [][NextList]_vars

\* the store without the quotes of a user
Without(store, user) ==
    [q \in {i \in DOMAIN store : store[i].user_id # user} |-> store[q]]

\* C6: a list response holds only quotes of the caller and its total counts
\* only those; a get of another user's quote is answered 404; and what a user
\* is answered is the same with and without the other users' quotes in the store.
C6_OwnershipIsolation ==
    /\ last.op = "list"
       => /\ \A i \in 1..Len(last.body.quotes) :
                quotes[last.body.quotes[i]].user_id = last.user
          /\ last.body.total =
                Cardinality({q \in DOMAIN quotes : quotes[q].user_id = last.user})
    /\ (/\ last.op = "get" /\ last.target \in DOMAIN quotes
        /\ quotes[last.target].user_id # last.user)
       => last.status = NOT_FOUND
    /\ \A a \in UserIds : \A b \in UserIds \ {a} :
          /\ \A p \in 1..2, l \in 1..2 :
                ListQuotes(Without(quotes, b), a, p, l) = ListQuotes(quotes, a, p, l)
          /\ \A q \in ListedIdInputs :
                GetQuote(Without(quotes, b), a, q) = GetQuote(quotes, a, q)

\* C6 witness: A listed its quotes while the store also holds a quote of B.
C6_Witness ==
    /\ last.op = "list" /\ last.user = "A"
    /\ Len(last.body.quotes) >= 1
    /\ \E q \in DOMAIN quotes : quotes[q].user_id = "B"

----------------------------------------------------------------------------
(* SpecTax: the fiscal snapshot. User A creates quotes at 20 % with and    *)
(* without a discount, updates them with payloads that all carry the tax   *)
(* rate 10 %, and switches its own tax status in the settings.             *)

TaxCreates == {CreatePayload(c, 20, d) : c \in ClientIds, d \in {None, 2000}}

TaxUpdates ==
    {[EmptyUpdate EXCEPT !.tax_rate = 10],
     [EmptyUpdate EXCEPT !.tax_rate = 10, !.client_id = "cB"],
     [EmptyUpdate EXCEPT !.tax_rate = 10,
                         !.items = <<<<ItemIn("Extra", 2, 2500, 1)>>>>]}

NextTax ==
    \/ \E d \in TaxCreates : Len(quotes) < MaxQuotes /\ create_quote("A", d)
    \/ \E q \in 1..MaxQuotes, d \in TaxUpdates : update_quote("A", q, d)
    \/ \E s \in TaxStatus : update_settings("A", s)

SpecTax == Init /\ [][NextTax]_vars

\* C8: every quote's client belongs to the quote's owner.
C8_ClientSameOwner ==
    \A q \in DOMAIN quotes : ClientOwner(quotes[q].client_id) = quotes[q].user_id

\* C9: a quote whose snapshot is FRANCHISE has tax_rate 0 in every reachable
\* state, whatever rate the create and update payloads carried, hence
\* tax_amount 0 and, without a discount, total = subtotal.
C9_FranchiseRateZero ==
    \A q \in DOMAIN quotes :
        quotes[q].tax_status = FRANCHISE
        => /\ quotes[q].tax_rate = 0
           /\ quotes[q].tax_amount = 0
           /\ quotes[q].discount_value = None => quotes[q].total = quotes[q].subtotal

\* C9 witness: a FRANCHISE quote, created with 20 % in the payload and then
\* updated with 10 % in the payload, holds rate 0 and total = subtotal.
C9_Witness ==
    /\ last.op = "update" /\ last.status = OK
    /\ Exists(quotes, last.target)
    /\ quotes[last.target].tax_status = FRANCHISE
    /\ quotes[last.target].tax_rate = 0
    /\ quotes[last.target].subtotal > 0
    /\ quotes[last.target].total = quotes[last.target].subtotal

\* C10: a quote's tax_status is its owner's at creation and never changes;
\* update-settings leaves every quote as it was; an update that carries a tax
\* rate stores 0 or the rate according to the quote's snapshot, not according
\* to the owner's current status.
C10_FiscalSnapshot ==
    [][/\ \A q \in DOMAIN quotes :
             q \in DOMAIN quotes' /\ quotes'[q].tax_status = quotes[q].tax_status
       /\ (Handled("create") /\ last'.status = CREATED)
          => quotes'[last'.target].tax_status = users[last'.user].tax_status
       /\ Handled("settings") => quotes' = quotes
       /\ (Handled("update") /\ last'.status = OK)
          => quotes'[last'.target].tax_rate =
                IF quotes[last'.target].tax_status = FRANCHISE THEN 0 ELSE 10]_vars

\* C10 witness: the owner switched from ASSUJETTI to FRANCHISE after creating
\* the quote, and a later update stored the supplied 10 %.
C10_Witness ==
    /\ last.op = "update" /\ last.status = OK
    /\ Exists(quotes, last.target)
    /\ quotes[last.target].tax_status = ASSUJETTI
    /\ users[quotes[last.target].user_id].tax_status = FRANCHISE
    /\ quotes[last.target].tax_rate = 10

\* C11: in every reachable state each quote's stored subtotal, tax_amount and
\* total are the ones its current items, discount_value and tax_rate give:
\* subtotal = sum of the item totals, tax_amount = max(subtotal - discount, 0)
\* * tax_rate / 100, total = max(subtotal - discount, 0) + tax_amount.
C11_TotalsConsistent ==
    \A q \in DOMAIN quotes :
        LET quote == quotes[q]
            discount == IF quote.discount_value = None THEN 0 ELSE quote.discount_value
            taxable == Max(quote.subtotal - discount, 0)
        IN  /\ quote.subtotal = SumTotals(quote.items)
            /\ 100 * quote.tax_amount + quote.sub_cent = taxable * quote.tax_rate
            /\ quote.total = taxable + quote.tax_amount

----------------------------------------------------------------------------
(* SpecTotals: calculate_quote_totals on its own. The initial states hold  *)
(* the Quote object create_quote has built for an ASSUJETTI user, totals   *)
(* not yet calculated, over item lists, discounts and rates; the one       *)
(* action calculates them.                                                 *)

\* the items of test_create_quote: 2 x 100.00 and 1 x 50.00
TestItems == <<ItemIn("Item 1", 2, 10000, 0), ItemIn("Item 2", 1, 5000, 1)>>

TotalsItems ==
    {<<>>, TestItems}
    \cup {<<ItemIn("Service", n, p, 0)>> : n \in {1, 2, 3}, p \in {0, 5000, 10003}}

TotalsPayloads ==
    {[CreatePayload("cA", r, d) EXCEPT !.items = its] :
        r \in {0, 10, 20}, d \in {None, 0, 2000, 50000}, its \in TotalsItems}

InitTotals ==
    /\ users = [u \in UserIds |-> [tax_status |-> ASSUJETTI]]
    /\ quotes \in {<<UnsavedQuote("A", d, 0, 0)>> : d \in TotalsPayloads}
    /\ now = 0
    /\ next_token = 0
    /\ next_item = 0
    /\ last = NoResponse
    /\ inflight = [w \in Workers |-> Idle]

\* calculate_quote_totals(quote, db_items) of create_quote
CalculateTotals ==
    /\ last.op = "none"
    /\ quotes' = [quotes EXCEPT ![1] = calculate_quote_totals(@, @.items)]
    /\ last' = Response("totals", "A", 1, OK)
    /\ UNCHANGED <<users, now, next_token, next_item, inflight>>

NextTotals == CalculateTotals

SpecTotals == InitTotals /\ [][NextTotals]_vars

\* C12: for every item list, discount and rate the computation yields
\* subtotal = sum of the item totals (discount not subtracted), taxable =
\* max(subtotal - discount, 0), tax_amount = taxable * rate / 100 as a value
\* of 2 decimals (whole cents, at most half a cent from the exact quotient),
\* total = taxable + tax_amount; a discount above the subtotal gives 0 and 0;
\* the items 2 x 100 and 1 x 50 at 20 % give 250.00 / 50.00 / 300.00.
C12_TotalsComputation ==
    last.op = "totals" =>
        LET quote == quotes[1]
            discount == IF quote.discount_value = None THEN 0 ELSE quote.discount_value
            taxable == Max(quote.subtotal - discount, 0)
            tax_x100 == 100 * quote.tax_amount + quote.sub_cent
            total_x100 == 100 * quote.total + quote.sub_cent
        IN  /\ quote.subtotal = SumTotals(quote.items)
            /\ quote.sub_cent = 0
            /\ tax_x100 - taxable * quote.tax_rate \in (0 - 50)..50
            /\ total_x100 = 100 * taxable + tax_x100
            /\ discount > quote.subtotal => (quote.tax_amount = 0 /\ quote.total = 0)
            /\ (/\ Len(quote.items) = 2 /\ discount = 0 /\ quote.tax_rate = 20)
               => (/\ quote.subtotal = 25000 /\ quote.tax_amount = 5000
                   /\ quote.total = 30000)

----------------------------------------------------------------------------
(* SpecTotalsTwice: calculate_quote_totals applied again to its own result *)

\* a further call on the same quote and item list
RecalculateTotals ==
    /\ last.op = "totals"
    /\ quotes' = [quotes EXCEPT ![1] = calculate_quote_totals(@, @.items)]
    /\ last' = Response("totals", "A", 1, OK)
    /\ UNCHANGED <<users, now, next_token, next_item, inflight>>

NextTotalsTwice == CalculateTotals \/ RecalculateTotals

SpecTotalsTwice == InitTotals /\ [][NextTotalsTwice]_vars

\* the fields of a quote row other than the three totals
TotalsFrame(quote) ==
    [f \in DOMAIN quote \ {"subtotal", "tax_amount", "total", "sub_cent"} |-> quote[f]]

\* C31: the totals computation applied a second time to the same quote and
\* item list yields the subtotal, tax_amount and total of the first
\* application, and no application changes another field of the quote.
C31_TotalsIdempotent ==
    [][Handled("totals") =>
          /\ TotalsFrame(quotes'[1]) = TotalsFrame(quotes[1])
          /\ last.op = "totals" =>
                /\ quotes'[1].subtotal = quotes[1].subtotal
                /\ quotes'[1].tax_amount = quotes[1].tax_amount
                /\ quotes'[1].total = quotes[1].total
                /\ quotes'[1].sub_cent = quotes[1].sub_cent]_vars

\* the computation has been applied again to a quote with a discount and a
\* tax amount
C31_Witness ==
    /\ last.op = "totals" /\ last.seq = 0
    /\ quotes[1].discount_value = 2000
    /\ quotes[1].subtotal > 2000
    /\ quotes[1].tax_amount > 0
    /\ quotes[1].total = quotes[1].subtotal - 2000 + quotes[1].tax_amount

----------------------------------------------------------------------------
(* SpecItems: the reconciliation of items. User A creates a quote with one *)
(* item (id 1) and updates it with items lists that patch, insert and      *)
(* delete, and with payloads that carry header fields and no items list.   *)

\* an id no quote item has
UnknownItemId == 99

ItemEntry(id, description, quantity, unit_price, order) ==
    [ItemIn(description, quantity, unit_price, order) EXCEPT !.id = id]

ItemLists ==
    {<<>>,
     <<ItemEntry(1, NoStr, None, 0, None)>>,
     <<ItemEntry(1, NoStr, 3, None, 2)>>,
     <<ItemIn("Extra", None, 500, None)>>,
     <<ItemEntry(UnknownItemId, "Other", 2, 500, 1)>>,
     <<ItemEntry(1, NoStr, 3, None, 2), ItemIn(NoStr, None, None, None)>>}

HeaderUpdates ==
    {[EmptyUpdate EXCEPT !.status = ACCEPTED],
     [EmptyUpdate EXCEPT !.currency = "USD", !.quote_number = "Q-2"],
     [EmptyUpdate EXCEPT !.tax_rate = 10, !.is_paid = <<TRUE>>]}

ItemUpdates ==
    {[EmptyUpdate EXCEPT !.items = <<its>>] : its \in ItemLists} \cup HeaderUpdates

NextItems ==
    \/ Len(quotes) < MaxQuotes /\ create_quote("A", CreatePayload("cA", 20, None))
    \/ \E q \in 1..MaxQuotes, d \in ItemUpdates : update_quote("A", q, d)

SpecItems == Init /\ [][NextItems]_vars

\* C13: in every reachable state every quote item has total = quantity *
\* unit_price, also an item an update inserted from an entry without quantity
\* or unit_price (stored with the defaults quantity 1, unit_price 0).
C13_ItemTotal ==
    \A q \in DOMAIN quotes :
        \A i \in 1..Len(quotes[q].items) :
            quotes[q].items[i].total
                = quotes[q].items[i].quantity * quotes[q].items[i].unit_price

\* this step answers 200 to an update request that carries an items list
UpdatedItems ==
    Handled("update") /\ last'.status = OK /\ Len(last'.request.items) = 1

\* C14: in an update with an items list, for every incoming entry whose id is
\* that of an existing item of the quote, every field the entry provides (not
\* null, a provided 0 included) is stored on that item, every field it omits
\* keeps its value, the item keeps its id, and its total is quantity *
\* unit_price.
C14_PatchInPlace ==
    [][UpdatedItems =>
          LET old == quotes[last'.target].items
              new == quotes'[last'.target].items
              incoming == last'.request.items[1]
          IN  \A k \in 1..Len(incoming) :
                 incoming[k].id \in ItemIds(old) =>
                    \E j \in 1..Len(new) :
                       LET item_in == incoming[k]
                           before == ItemById(old, item_in.id)
                       IN  /\ new[j].id = item_in.id
                           /\ new[j].description =
                                 IF item_in.description # NoStr
                                 THEN item_in.description ELSE before.description
                           /\ new[j].quantity =
                                 IF item_in.quantity # None
                                 THEN item_in.quantity ELSE before.quantity
                           /\ new[j].unit_price =
                                 IF item_in.unit_price # None
                                 THEN item_in.unit_price ELSE before.unit_price
                           /\ new[j].order =
                                 IF item_in.order # None
                                 THEN item_in.order ELSE before.order
                           /\ new[j].total = new[j].quantity * new[j].unit_price]_vars

\* C15: in an update with an items list, every incoming entry with no id or
\* with an id no existing item of the quote has creates a new item, its missing
\* fields defaulting to quantity 1, unit_price 0, order 0 and an empty
\* description; every existing item whose id is in no incoming entry is
\* deleted; an empty list deletes every item and sets subtotal to 0.
C15_InsertAndDelete ==
    [][UpdatedItems =>
          LET old == quotes[last'.target].items
              new == quotes'[last'.target].items
              incoming == last'.request.items[1]
              fresh == {k \in 1..Len(incoming) : incoming[k].id \notin ItemIds(old)}
              created == {j \in 1..Len(new) : new[j].id \notin ItemIds(old)}
          IN  /\ Cardinality(created) >= Cardinality(fresh)
              /\ \A k \in fresh :
                    \E j \in created :
                       LET item_in == incoming[k]
                       IN  /\ new[j].id # item_in.id
                           /\ new[j].description =
                                 IF item_in.description # NoStr
                                 THEN item_in.description ELSE ""
                           /\ new[j].quantity =
                                 IF item_in.quantity # None THEN item_in.quantity ELSE 1
                           /\ new[j].unit_price =
                                 IF item_in.unit_price # None THEN item_in.unit_price ELSE 0
                           /\ new[j].order =
                                 IF item_in.order # None THEN item_in.order ELSE 0
              /\ \A i \in 1..Len(old) :
                    old[i].id \notin ItemIds(incoming) => old[i].id \notin ItemIds(new)
              /\ incoming = <<>>
                 => (new = <<>> /\ quotes'[last'.target].subtotal = 0)]_vars

\* C15 witness: an update whose only entry has no id and no quantity has
\* inserted an item with quantity 1 and deleted the item the quote had.
C15_Witness ==
    /\ last.op = "update" /\ last.status = OK
    /\ Len(last.request.items) = 1
    /\ Len(last.request.items[1]) = 1
    /\ last.request.items[1][1].id = None
    /\ last.request.items[1][1].quantity = None
    /\ Len(quotes[last.target].items) = 1
    /\ quotes[last.target].items[1].id # 1
    /\ quotes[last.target].items[1].quantity = 1

\* C16: an update whose payload carries no items list leaves the items of
\* every quote, and each field of each item, as they were, whatever header
\* fields it changes.
C16_NoItemsListNoChange ==
    [][(Handled("update") /\ Len(last'.request.items) = 0)
       => \A q \in DOMAIN quotes : quotes'[q].items = quotes[q].items]_vars

\* C16 witness: an update without items list changed currency and number of a
\* quote that holds items.
C16_Witness ==
    /\ last.op = "update" /\ last.status = OK
    /\ Len(last.request.items) = 0
    /\ last.request.currency = "USD"
    /\ quotes[last.target].currency = "USD"
    /\ quotes[last.target].quote_number = "Q-2"
    /\ quotes[last.target].items # <<>>

----------------------------------------------------------------------------
(* SpecShare: the share link over the life of a quote. User A creates a    *)
(* quote, moves it to Accepted or Rejected, generates share links; anyone  *)
(* reads and signs by token; days pass.                                    *)

ShareUpdates == {[EmptyUpdate EXCEPT !.status = st] : st \in {ACCEPTED, REJECTED}}

NextShare ==
    \/ Len(quotes) < MaxQuotes /\ create_quote("A", CreatePayload("cA", 20, None))
    \/ \E q \in 1..MaxQuotes, d \in ShareUpdates : update_quote("A", q, d)
    \/ \E q \in 1..MaxQuotes : generate_share_link("A", q)
    \/ \E t \in Tokens : get_public_quote(t)
    \/ \E t \in Tokens : get_public_quote_pdf(t)
    \/ \E t \in Tokens, d \in LockSigns : sign_quote(t, d)
    \/ \E d \in TickDays : Tick(d)

SpecShare == Init /\ [][NextShare]_vars

\* this step answers 200 to a share request
Shared == Handled("share") /\ last'.status = OK

\* C17: generate share link by the owner, from every status, stores a token
\* different from every token issued before, sets share_token_expires_at to
\* the time of the request plus 30 days, and sets status to Sent.
C17_ShareLink ==
    [][Shared =>
          LET before == quotes[last'.target]
              after == quotes'[last'.target]
          IN  /\ last'.user = before.user_id
              /\ after.share_token # None
              /\ after.share_token \notin 1..next_token
              /\ \A q \in DOMAIN quotes : quotes[q].share_token # after.share_token
              /\ after.share_token_expires_at = now + ShareTokenDays
              /\ after.status = SENT]_vars

\* C17 witness: a second link was generated for a quote that had been signed
\* with the first; the quote is back to Sent.
C17_Witness ==
    /\ last.op = "share" /\ last.status = OK
    /\ quotes[last.target].signed_at # None
    /\ quotes[last.target].share_token = 2
    /\ quotes[last.target].status = SENT

\* C18: the first share-link generation of a quote sets sent_at, and every
\* later generation on the same quote leaves sent_at as it was.
C18_SentAtSetOnce ==
    [][Shared =>
          LET before == quotes[last'.target]
              after == quotes'[last'.target]
          IN  after.sent_at = IF before.sent_at = None THEN now ELSE before.sent_at]_vars

\* the fields of a quote row other than the share token, its expiry, the
\* status and updated_at
ShareFrame(quote) ==
    [f \in DOMAIN quote \ {"share_token", "share_token_expires_at", "status",
                           "updated_at"} |-> quote[f]]

\* C19: a new share link for a signed quote leaves signed_at, signature_data,
\* signer_name and signer_ip as stored and changes only the token, its expiry
\* and the status (to Sent), updated_at aside; a sign request with the new
\* token, while it is valid, is then answered 400 (already signed).
C19_ReshareSigned ==
    [][/\ (Shared /\ quotes[last'.target].signed_at # None)
          => LET before == quotes[last'.target]
                 after == quotes'[last'.target]
             IN  /\ Evidence(after) = Evidence(before)
                 /\ ShareFrame(after) = ShareFrame(before)
                 /\ after.status = SENT
                 /\ after.share_token # before.share_token
       /\ (/\ Handled("sign")
           /\ \E q \in DOMAIN quotes :
                 /\ quotes[q].share_token = last'.target
                 /\ quotes[q].signed_at # None
                 /\ quotes[q].share_token_expires_at >= now)
          => (last'.status = BAD_REQUEST /\ quotes' = quotes)]_vars

\* the token is the share token of a quote
TokenOfQuote(token) == \E q \in DOMAIN quotes : quotes[q].share_token = token

\* the token is the share token of a quote and its expiry has passed
ExpiredToken(token) ==
    \E q \in DOMAIN quotes :
        /\ quotes[q].share_token = token
        /\ quotes[q].share_token_expires_at < now

----------------------------------------------------------------------------
(* SpecStatus: payment and signature on the life of a quote. User A       *)
(* creates a quote, accepts it, marks it paid, shares it; anyone signs by  *)
(* token; days pass.                                                       *)

StatusUpdates ==
    {[EmptyUpdate EXCEPT !.status = st] : st \in {ACCEPTED, SIGNED}}
    \cup {[EmptyUpdate EXCEPT !.is_paid = <<TRUE>>]}

NextStatus ==
    \/ Len(quotes) < MaxQuotes /\ create_quote("A", CreatePayload("cA", 20, None))
    \/ \E q \in 1..MaxQuotes, d \in StatusUpdates : update_quote("A", q, d)
    \/ \E q \in 1..MaxQuotes : generate_share_link("A", q)
    \/ \E t \in Tokens, d \in LockSigns : sign_quote(t, d)
    \/ \E d \in TickDays : Tick(d)

SpecStatus == Init /\ [][NextStatus]_vars

\* a sign request answered 200
Signed == Handled("sign") /\ last'.status = OK

\* the fields of a quote row other than the signature evidence, the status
\* and updated_at
SignFrame(quote) ==
    [f \in DOMAIN quote \ {"signed_at", "signature_data", "signer_name",
                           "signer_ip", "status", "updated_at"} |-> quote[f]]

\* C21: a sign request answered 200 sets, in that one step, signed_at to the
\* current time, signature_data, signer_name and signer_ip to those of the
\* request and status to Signed on the quote of the token, whatever its status
\* was, and leaves its share_token, share_token_expires_at, is_paid,
\* payment_date, monetary fields and items as they were.
C21_SignEffect ==
    [][Signed =>
          \E q \in DOMAIN quotes, d \in LockSigns :
              /\ quotes[q].share_token = last'.target
              /\ quotes'[q].signed_at = now
              /\ quotes'[q].signature_data = d.signature_data
              /\ quotes'[q].signer_name = d.signer_name
              /\ quotes'[q].signer_ip = d.client_ip
              /\ quotes'[q].status = SIGNED
              /\ SignFrame(quotes'[q]) = SignFrame(quotes[q])]_vars

\* a paid quote, shared on day 0, has just been signed on a later day
C21_Witness ==
    /\ last.op = "sign" /\ last.status = OK
    /\ \E q \in DOMAIN quotes :
          /\ quotes[q].share_token = last.target
          /\ quotes[q].signed_at = now /\ quotes[q].sent_at < now
          /\ quotes[q].status = SIGNED /\ quotes[q].signer_name = "Jean Dupont"
          /\ quotes[q].is_paid /\ quotes[q].payment_date # None
          /\ quotes[q].items # <<>> /\ quotes[q].total > 0

\* C22: every sign request made with the share token of a quote whose
\* signed_at is set is answered 400 (already signed), whether or not the token
\* has expired by then.
C22_SignedTokenAlreadySigned ==
    [][(/\ Handled("sign")
        /\ \E q \in DOMAIN quotes : /\ quotes[q].share_token = last'.target
                                    /\ quotes[q].signed_at # None)
          => last'.status = BAD_REQUEST]_vars

\* the four failure conditions, read on the store before the request
UnknownToken(token) == \A q \in DOMAIN quotes : quotes[q].share_token # token

PastExpiry(token) ==
    \E q \in DOMAIN quotes : /\ quotes[q].share_token = token
                              /\ quotes[q].share_token_expires_at < now

SignedUnexpired(token) ==
    \E q \in DOMAIN quotes : /\ quotes[q].share_token = token
                              /\ quotes[q].share_token_expires_at >= now
                              /\ quotes[q].signed_at # None

PaidOwned(user, quote_id) ==
    /\ quote_id \in DOMAIN quotes
    /\ quotes[quote_id].user_id = user
    /\ quotes[quote_id].is_paid

\* C23: a sign request is answered 404 exactly when its token is unknown, 410
\* exactly when the token is known and expired, 400 exactly when the token is
\* valid and the quote signed; an update is answered 403 exactly when the
\* caller's quote is paid; and the four answers are pairwise different.
C23_DistinctFailures ==
    [][/\ Handled("sign") =>
            /\ (last'.status = NOT_FOUND) <=> UnknownToken(last'.target)
            /\ (last'.status = GONE) <=> PastExpiry(last'.target)
            /\ (last'.status = BAD_REQUEST) <=> SignedUnexpired(last'.target)
            /\ last'.status # FORBIDDEN
       /\ Handled("update") =>
            /\ (last'.status = FORBIDDEN) <=> PaidOwned(last'.user, last'.target)
            /\ last'.status \notin {GONE, BAD_REQUEST}
       /\ Cardinality({NOT_FOUND, GONE, BAD_REQUEST, FORBIDDEN}) = 4]_vars

\* an update has just been refused on a paid quote that is also signed and
\* whose share token has expired
C23_Witness ==
    /\ last.op = "update" /\ last.status = FORBIDDEN
    /\ quotes[last.target].is_paid
    /\ quotes[last.target].signed_at # None
    /\ quotes[last.target].share_token # None
    /\ quotes[last.target].share_token_expires_at < now

\* C25: an update by its owner that carries is_paid = true on an unpaid quote
\* is answered 200, sets is_paid and stamps payment_date with the current
\* time, whatever the status of the quote; a payment_date once set is left as
\* it is by every update, share and sign request; and a paid quote always has
\* a payment_date.
C25_PaymentDateStamped ==
    [][/\ (/\ Handled("update")
            /\ last'.target \in DOMAIN quotes
            /\ quotes[last'.target].user_id = last'.user
            /\ ~quotes[last'.target].is_paid
            /\ last'.request.is_paid = <<TRUE>>)
              => /\ last'.status = OK
                 /\ quotes'[last'.target].is_paid
                 /\ quotes'[last'.target].payment_date = now
       /\ \A q \in DOMAIN quotes :
              quotes[q].payment_date # None
                  => quotes'[q].payment_date = quotes[q].payment_date
       /\ \A q \in DOMAIN quotes' :
              quotes'[q].is_paid => quotes'[q].payment_date # None]_vars

\* a quote paid on day 0 and signed has been shared again on a later day
C25_Witness ==
    /\ last.op = "share" /\ last.status = OK
    /\ quotes[last.target].is_paid
    /\ quotes[last.target].payment_date = 0 /\ now > 0
    /\ quotes[last.target].sent_at = now
    /\ quotes[last.target].signed_at # None

----------------------------------------------------------------------------
(* SpecTransitions: status writes. User A creates quotes, writes each of    *)
(* the five statuses, marks a quote paid, shares it; anyone signs by token. *)

TransitionUpdates ==
    {[EmptyUpdate EXCEPT !.status = st] : st \in QuoteStatus}
    \cup {[EmptyUpdate EXCEPT !.is_paid = <<TRUE>>]}

NextTransitions ==
    \/ Len(quotes) < MaxQuotes /\ create_quote("A", CreatePayload("cA", 20, None))
    \/ \E q \in 1..MaxQuotes, d \in TransitionUpdates : update_quote("A", q, d)
    \/ \E q \in 1..MaxQuotes : generate_share_link("A", q)
    \/ \E t \in Tokens, d \in LockSigns : sign_quote(t, d)

SpecTransitions == Init /\ [][NextTransitions]_vars

\* C24: an update by its owner of an unpaid quote that carries one of the
\* five statuses is answered 200 and stores that status, whatever the status
\* of the quote was; no pair (current status, requested status) is refused.
C24_AnyStatusWrite ==
    [][(/\ Handled("update")
        /\ last'.target \in DOMAIN quotes
        /\ quotes[last'.target].user_id = last'.user
        /\ ~quotes[last'.target].is_paid
        /\ last'.request.status \in QuoteStatus)
          => /\ last'.status = OK
             /\ quotes'[last'.target].status = last'.request.status]_vars

\* a quote that carries a signature has just been set back to Draft
C24_Witness ==
    /\ last.op = "update" /\ last.status = OK
    /\ last.request.status = DRAFT
    /\ quotes[last.target].status = DRAFT
    /\ quotes[last.target].signed_at # None
    /\ ~quotes[last.target].is_paid

----------------------------------------------------------------------------
(* SpecThreshold: the threshold status as a function of the collected       *)
(* revenue and the tax status. The store holds one quote of user A, paid    *)
(* this year, whose total is drawn around the two thresholds.               *)

\* totals in cents: the scenario values 30 000, 38 000 and 42 000 euros, no
\* revenue, and every cent within five cents of each threshold
RevenueValues ==
    {0, 3000000, 3800000, 4200000}
    \cup {BaseThreshold * 100 + k : k \in (0 - 5)..5}
    \cup {MaxThreshold * 100 + k : k \in (0 - 5)..5}

\* a quote of one untaxed item of the given price, then marked paid, at time t
PaidQuote(user, price, t) ==
    UpdatePayment(
        NewQuote(user, [CreatePayload("cA", 0, None) EXCEPT
                           !.items = <<ItemIn("Service", 1, price, 0)>>], t, 0),
        [EmptyUpdate EXCEPT !.is_paid = <<TRUE>>], t)

InitThreshold ==
    /\ users \in {[u \in UserIds |-> [tax_status |-> IF u = "A" THEN s ELSE FRANCHISE]] :
                      s \in {FRANCHISE, ASSUJETTI}}
    /\ quotes \in {<<PaidQuote("A", r, 0)>> : r \in RevenueValues}
    /\ now = 0
    /\ next_token = 0
    /\ next_item = 1
    /\ last = NoResponse
    /\ inflight = [w \in Workers |-> Idle]

NextThreshold == get_dashboard_metrics("A")

SpecThreshold == InitThreshold /\ [][NextThreshold]_vars

\* C26: the threshold status reported for a revenue and a tax status is
\* assujetti for an ASSUJETTI user at any revenue; otherwise exceeded above
\* 41 250, warning above 37 500 and up to 41 250, ok up to 37 500: exactly
\* 37 500 is ok and exactly 41 250 is warning.
C26_ThresholdStatus ==
    last.op = "dashboard" =>
        LET revenue == last.revenue
            tax_status == users[last.user].tax_status
        IN  /\ tax_status = ASSUJETTI => last.threshold_status = "assujetti"
            /\ (tax_status # ASSUJETTI /\ revenue > 41250 * UnitsPerEuro)
                  => last.threshold_status = "exceeded"
            /\ (/\ tax_status # ASSUJETTI
                /\ revenue > 37500 * UnitsPerEuro
                /\ revenue <= 41250 * UnitsPerEuro)
                  => last.threshold_status = "warning"
            /\ (tax_status # ASSUJETTI /\ revenue <= 37500 * UnitsPerEuro)
                  => last.threshold_status = "ok"

\* a FRANCHISE user with exactly 41 250 euros collected was answered warning
C26_Witness ==
    /\ last.op = "dashboard"
    /\ users[last.user].tax_status = FRANCHISE
    /\ quotes[1].total = 4125000
    /\ last.revenue = 41250 * UnitsPerEuro
    /\ last.threshold_status = "warning"

----------------------------------------------------------------------------
(* SpecRevenue: collected revenue. Both users create quotes, sign them off  *)
(* by status, mark them paid before or after the New Year, read their       *)
(* dashboard and export their revenue book.                                 *)

DaysToNewYear == DaysPerYear - StartDay

RevenueUpdates ==
    {[EmptyUpdate EXCEPT !.status = SIGNED],
     [EmptyUpdate EXCEPT !.is_paid = <<TRUE>>]}

NextRevenue ==
    \/ \E u \in UserIds, c \in ClientIds :
          /\ Len(quotes) < MaxListed /\ ClientOwned(u, c)
          /\ create_quote(u, CreatePayload(c, 20, None))
    \/ \E u \in UserIds, q \in 1..MaxListed, d \in RevenueUpdates :
          q \in DOMAIN quotes /\ update_quote(u, q, d)
    \/ \E u \in UserIds : get_dashboard_metrics(u)
    \/ \E u \in UserIds : export_revenue(u)
    \/ Tick(DaysToNewYear)

SpecRevenue == Init /\ [][NextRevenue]_vars

\* C27: the revenue the dashboard compares with the thresholds is the sum of
\* total over the caller's quotes that are paid with a payment_date in the
\* current calendar year; unpaid quotes, quotes paid in another year and
\* other users' quotes add nothing; and the request changes no quote and no
\* user's tax_status.
C27_CollectedRevenue ==
    [][Handled("dashboard") =>
          /\ last'.revenue =
                SumTotal(quotes, {q \in DOMAIN quotes :
                                    /\ quotes[q].user_id = last'.user
                                    /\ quotes[q].is_paid
                                    /\ quotes[q].payment_date # None
                                    /\ YearOf(quotes[q].payment_date) = YearOf(now)})
          /\ last'.threshold_status \in {"ok", "warning", "exceeded", "assujetti"}
          /\ quotes' = quotes
          /\ users' = users]_vars

\* after the New Year user A, with one quote paid in December and one paid
\* in January, was reported the January quote alone
C27_Witness ==
    /\ last.op = "dashboard" /\ last.user = "A"
    /\ YearOf(now) = 1
    /\ \E p \in DOMAIN quotes : \E q \in DOMAIN quotes :
          /\ quotes[p].user_id = "A" /\ quotes[p].is_paid
          /\ YearOf(quotes[p].payment_date) = 0
          /\ quotes[q].user_id = "A" /\ quotes[q].is_paid
          /\ YearOf(quotes[q].payment_date) = 1
          /\ last.revenue = quotes[q].total * 100
          /\ last.revenue > 0

\* C28: the rows of a revenue export, the header row aside, are one row for
\* each paid quote of the caller and no other row, none for an unpaid quote
\* and none for a quote of another user, in descending order of payment date.
C28_ExportRows ==
    [][Handled("export") =>
          LET rows == last'.rows
              paid == {q \in DOMAIN quotes :
                          quotes[q].user_id = last'.user /\ quotes[q].is_paid}
          IN  /\ {rows[i].quote : i \in DOMAIN rows} = paid
              /\ DOMAIN rows = 1..Cardinality(paid)
              /\ \A i \in DOMAIN rows :
                    /\ rows[i].payment_date = quotes[rows[i].quote].payment_date
                    /\ rows[i].quote_number = quotes[rows[i].quote].quote_number
              /\ \A i \in DOMAIN rows : \A j \in DOMAIN rows :
                    i < j => rows[i].payment_date >= rows[j].payment_date]_vars

\* an export of two rows, the quote paid in January before the one paid in
\* December
C28_Witness ==
    /\ last.op = "export" /\ last.user = "A"
    /\ DOMAIN last.rows = 1..2
    /\ last.rows[1].payment_date > last.rows[2].payment_date
    /\ last.rows[1].quote # last.rows[2].quote
    /\ quotes[last.rows[2].quote].is_paid

----------------------------------------------------------------------------
(* SpecTokens: several quotes under share. Both users create quotes and     *)
(* share them, again and again; anyone reads and signs by token.            *)

NextTokens ==
    \/ \E u \in UserIds, c \in ClientIds :
          /\ Len(quotes) < MaxListed /\ ClientOwned(u, c)
          /\ create_quote(u, CreatePayload(c, 20, None))
    \/ \E u \in UserIds, q \in 1..MaxListed :
          QuoteOwned(quotes, u, q) /\ generate_share_link(u, q)
    \/ \E t \in Tokens : get_public_quote(t)
    \/ \E t \in Tokens : get_public_quote_pdf(t)
    \/ \E t \in Tokens, d \in LockSigns : sign_quote(t, d)

SpecTokens == Init /\ [][NextTokens]_vars

\* C29: no two quotes ever hold the same share token, so a token names at most
\* one quote for the public read, the PDF and the sign; a token is given to a
\* quote by a share request for that quote only and was never given before;
\* and a sign changes no quote but the holder of the token presented.
C29_TokenUnique ==
    [][/\ \A p \in DOMAIN quotes' : \A q \in DOMAIN quotes' :
             (p # q /\ quotes'[p].share_token # None)
                 => quotes'[p].share_token # quotes'[q].share_token
       /\ \A q \in DOMAIN quotes :
             quotes'[q].share_token # quotes[q].share_token
                 => /\ Handled("share") /\ last'.target = q
                    /\ quotes'[q].share_token \notin 1..next_token
       /\ Handled("sign") =>
             \A q \in DOMAIN quotes :
                 quotes[q].share_token # last'.target => quotes'[q] = quotes[q]
       /\ (last'.op \in {"sign", "public", "public_pdf"} /\ last' # last) =>
             Cardinality({q \in DOMAIN quotes :
                             quotes[q].share_token = last'.target}) <= 1]_vars

\* two quotes under different tokens, one just signed, the other not signed
C29_Witness ==
    /\ last.op = "sign" /\ last.status = OK
    /\ \E p \in DOMAIN quotes : \E q \in DOMAIN quotes :
          /\ quotes[p].share_token = last.target
          /\ quotes[p].signed_at # None
          /\ quotes[q].share_token # None
          /\ quotes[q].share_token # last.target
          /\ quotes[q].signed_at = None

----------------------------------------------------------------------------
(* SpecSearch: listing with a search term, on the data of test_search_quotes *)

\* the names of the two clients
ClientName(client_id) == IF client_id = "cA" THEN "Test Client" ELSE "Dupont SA"

SearchNumbers == {"Q-001", "Q-SEARCH-ME", "Q-OTHER"}

SearchTerms == {"Test", "SEARCH", "XYZ"}

\* text contains term, for the names, numbers and terms above
Contains(text, term) ==
    <<text, term>> \in {<<"Test Client", "Test">>, <<"Q-SEARCH-ME", "SEARCH">>}

NextSearch ==
    \/ \E u \in UserIds, c \in ClientIds, n \in SearchNumbers :
          /\ Len(quotes) < MaxListed /\ ClientOwned(u, c)
          /\ create_quote(u, [CreatePayload(c, 20, None) EXCEPT !.quote_number = n])
    \/ \E u \in UserIds, t \in SearchTerms : search_quotes(u, t)

SpecSearch == Init /\ [][NextSearch]_vars

\* C30: a listing with a search term returns exactly the caller's quotes whose
\* quote_number or whose client's name contains the term, none when no quote
\* matches, and no quote that matches neither.
C30_SearchFilters ==
    [][Handled("search") =>
          {last'.body.quotes[i] : i \in 1..Len(last'.body.quotes)} =
              {q \in DOMAIN quotes :
                  /\ quotes[q].user_id = last'.user
                  /\ \/ Contains(quotes[q].quote_number, last'.search)
                     \/ Contains(ClientName(quotes[q].client_id), last'.search)}]_vars

----------------------------------------------------------------------------
(* Concurrent requests. Every request runs in its own Session, that is its *)
(* own database transaction (get_session); nothing locks the row between   *)
(* the SELECT that loads it and the UPDATE that db.commit() flushes, and   *)
(* the flush writes the columns the handler changed on the loaded row.     *)
(* A worker is between the two when its pc is "sign" or "update".          *)

Done(op, target, status) ==
    [pc |-> "done", op |-> op, target |-> target, status |-> status]

Free(w) == inflight[w].pc \in {"idle", "done"}

\* sign_quote up to the assignment of the signature fields
sign_begin(w, token, sign_data) ==
    /\ Free(w)
    /\ LET status == SignCheck(quotes, token, now)
       IN  IF status # OK
           THEN /\ inflight' = [inflight EXCEPT ![w] = Done("sign", token, status)]
                /\ last' = Response("sign", NoStr, token, status)
           ELSE /\ \E q \in QuotesByToken(quotes, token) :
                      inflight' = [inflight EXCEPT ![w] =
                                      [pc |-> "sign", quote_id |-> q, token |-> token,
                                       sign_data |-> sign_data, t |-> now]]
                /\ UNCHANGED last
    /\ UNCHANGED <<users, quotes, now, next_token, next_item>>

\* db.commit() of sign_quote: UPDATE quote SET the six signature columns
sign_commit(w) ==
    /\ inflight[w].pc = "sign"
    /\ LET r == inflight[w]
       IN  /\ quotes' = [quotes EXCEPT
                           ![r.quote_id] = SignQuote(@, r.sign_data, r.t)]
           /\ inflight' = [inflight EXCEPT ![w] = Done("sign", r.token, OK)]
           /\ last' = Response("sign", NoStr, r.token, OK)
    /\ UNCHANGED <<users, now, next_token, next_item>>

\* the columns of the quote row a flush writes: those whose value on the
\* handler's object differs from the value loaded
FlushRow(current, loaded, new) ==
    [f \in DOMAIN current |->
        IF f = "items" THEN current[f]
        ELSE IF new[f] # loaded[f] THEN new[f] ELSE current[f]]

\* the item rows after a flush: the rows the handler deleted are gone, the
\* rows it patched are rewritten, the rows it added are inserted
FlushItems(current, loaded, new) ==
    LET deleted == ItemIds(loaded) \ ItemIds(new)
        kept == SelectSeq(current, LAMBDA it : it.id \notin deleted)
        written == [i \in 1..Len(kept) |->
                       IF /\ kept[i].id \in ItemIds(new)
                          /\ ItemById(new, kept[i].id) # ItemById(loaded, kept[i].id)
                       THEN ItemById(new, kept[i].id) ELSE kept[i]]
        inserted == SelectSeq(new, LAMBDA it : it.id \notin ItemIds(loaded))
    IN  written \o inserted

Flush(current, loaded, new) ==
    [FlushRow(current, loaded, new) EXCEPT
        !.items = FlushItems(current.items, loaded.items, new.items)]

\* update_quote up to db.commit(): the checks, and the changes made on the
\* loaded row
update_begin(w, user, quote_id, quote_data) ==
    /\ Free(w)
    /\ IF ~QuoteOwned(quotes, user, quote_id)
       THEN /\ inflight' = [inflight EXCEPT ![w] = Done("update", quote_id, NOT_FOUND)]
            /\ last' = Response("update", user, quote_id, NOT_FOUND)
            /\ UNCHANGED next_item
       ELSE IF IsLocked(quotes[quote_id])
       THEN /\ inflight' = [inflight EXCEPT ![w] = Done("update", quote_id, FORBIDDEN)]
            /\ last' = Response("update", user, quote_id, FORBIDDEN)
            /\ UNCHANGED next_item
       ELSE /\ next_item + DrawnItemIds(quotes[quote_id], quote_data) <= MaxItemIds
            /\ inflight' = [inflight EXCEPT ![w] =
                               [pc |-> "update", user |-> user, quote_id |-> quote_id,
                                loaded |-> quotes[quote_id],
                                new |-> ApplyUpdate(quotes[quote_id], quote_data,
                                                    now, next_item)]]
            /\ next_item' = next_item + DrawnItemIds(quotes[quote_id], quote_data)
            /\ UNCHANGED last
    /\ UNCHANGED <<users, quotes, now, next_token>>

\* db.commit() of update_quote
update_commit(w) ==
    /\ inflight[w].pc = "update"
    /\ LET r == inflight[w]
       IN  /\ quotes' = [quotes EXCEPT ![r.quote_id] = Flush(@, r.loaded, r.new)]
           /\ inflight' = [inflight EXCEPT ![w] = Done("update", r.quote_id, OK)]
           /\ last' = Response("update", r.user, r.quote_id, OK)
    /\ UNCHANGED <<users, now, next_token, next_item>>

RaceUpdates ==
    {[EmptyUpdate EXCEPT !.status = ACCEPTED],
     [EmptyUpdate EXCEPT !.is_paid = <<TRUE>>],
     [EmptyUpdate EXCEPT !.items = <<<<ItemIn("Hacked", 1, 100, None)>>>>]}

NextRace ==
    \/ Len(quotes) < MaxQuotes /\ create_quote("A", CreatePayload("cA", 20, None))
    \/ \E q \in 1..MaxQuotes : generate_share_link("A", q)
    \/ \E w \in Workers, t \in Tokens, d \in SignInputs : sign_begin(w, t, d)
    \/ \E w \in Workers : sign_commit(w)
    \/ \E w \in Workers, q \in 1..MaxQuotes, d \in RaceUpdates :
          update_begin(w, "A", q, d)
    \/ \E w \in Workers : update_commit(w)

SpecRace == Init /\ [][NextRace]_vars

\* C4: of two sign requests for the same token that run concurrently, at most
\* one is answered 200, and the stored signature is the one it wrote.
C4_OneSignSucceeds ==
    \A w1 \in Workers : \A w2 \in Workers \ {w1} :
        ~(/\ inflight[w1].pc = "done" /\ inflight[w2].pc = "done"
          /\ inflight[w1].op = "sign" /\ inflight[w2].op = "sign"
          /\ inflight[w1].status = OK /\ inflight[w2].status = OK
          /\ inflight[w1].target = inflight[w2].target)

\* C5: the commit of an update request never changes the header fields or the
\* items of a quote that is already paid when the commit happens.
C5_NoCommitAfterPayment ==
    [][\A w \in Workers :
          (/\ inflight[w].pc = "update" /\ inflight'[w].pc = "done"
           /\ quotes[inflight[w].quote_id].is_paid)
          => (/\ Header(quotes'[inflight[w].quote_id])
                    = Header(quotes[inflight[w].quote_id])
              /\ quotes'[inflight[w].quote_id].items
                    = quotes[inflight[w].quote_id].items)]_vars

----------------------------------------------------------------------------
(* SpecAtomic: what the store shows between the steps of concurrent        *)
(* requests. User A creates a quote, with one item or with none, and shares *)
(* it; two workers run updates (an items list, a payment), one of them runs *)
(* signs; each request takes two steps, the checks and the commit.          *)

AtomicCreates ==
    {CreatePayload("cA", 20, None),
     [CreatePayload("cA", 20, None) EXCEPT !.items = <<>>]}

AtomicUpdates ==
    {[EmptyUpdate EXCEPT !.is_paid = <<TRUE>>],
     [EmptyUpdate EXCEPT !.items = <<<<ItemIn("Hacked", 1, 100, None)>>>>]}

NextAtomic ==
    \/ \E d \in AtomicCreates : Len(quotes) < MaxQuotes /\ create_quote("A", d)
    \/ \E q \in 1..MaxQuotes : generate_share_link("A", q)
    \/ \E t \in Tokens, d \in LockSigns : sign_begin("w2", t, d)
    \/ sign_commit("w2")
    \/ \E w \in Workers, q \in 1..MaxQuotes, d \in AtomicUpdates :
          update_begin(w, "A", q, d)
    \/ \E w \in Workers : update_commit(w)

SpecAtomic == Init /\ [][NextAtomic]_vars

\* C32: the changes of a mutation reach the store in one step, that of its
\* commit, or not at all: the steps before the commit and a request answered
\* with an error change no quote, and no committed state shows a quote whose
\* items are reconciled while its subtotal is that of another item list.
C32_AtomicMutations ==
    [][/\ \A w \in Workers :
             /\ (inflight'[w] # inflight[w] /\ inflight'[w].pc \in {"sign", "update"})
                   => quotes' = quotes
             /\ (/\ inflight'[w] # inflight[w] /\ inflight'[w].pc = "done"
                 /\ inflight'[w].status # OK)
                   => quotes' = quotes
       /\ (Handled("share") /\ last'.status # OK) => quotes' = quotes
       /\ \A q \in DOMAIN quotes' :
             quotes'[q].subtotal = SumTotals(quotes'[q].items)]_vars

----------------------------------------------------------------------------
(* SpecNumbers: quote numbers. The Quote table is declared in              *)
(* models/quote.py; its constraint on quote_number is taken as the          *)
(* specification states it, unique per owner, and a commit that breaks it   *)
(* fails with an IntegrityError no handler catches.                         *)

SERVER_ERROR == "500"

NumberFreeAlways(store, user, quote_number, quote_id) == TRUE

\* no other quote of the user holds the number
NumberFree(store, user, quote_number, quote_id) ==
    \A q \in DOMAIN store :
        (q # quote_id /\ store[q].user_id = user)
            => store[q].quote_number # quote_number

\* create_quote with the db.commit() that can fail on the constraint
create_quote_unique(user, quote_data) ==
    IF /\ ClientOwned(user, quote_data.client_id)
       /\ ~NumberFree(quotes, user,
                      GenerateQuoteNumber(quote_data.quote_number, now), None)
    THEN /\ last' = Response("create", user, None, SERVER_ERROR)
         /\ UNCHANGED <<users, quotes, now, next_token, next_item, inflight>>
    ELSE create_quote(user, quote_data)

\* update_quote with the db.commit() that can fail on the constraint
update_quote_unique(user, quote_id, quote_data) ==
    IF /\ QuoteOwned(quotes, user, quote_id)
       /\ ~IsLocked(quotes[quote_id])
       /\ ~NumberFree(quotes, user,
                      UpdateHeader(quotes[quote_id], quote_data).quote_number,
                      quote_id)
    THEN /\ last' = UpdateResponse(user, quote_id, quote_data, SERVER_ERROR)
         /\ UNCHANGED <<users, quotes, now, next_token, next_item, inflight>>
    ELSE update_quote(user, quote_id, quote_data)

NumberCreates ==
    {[CreatePayload(c, 20, None) EXCEPT !.quote_number = n] :
        c \in ClientIds, n \in {NoStr, "Q-001"}}

NumberUpdates ==
    {[EmptyUpdate EXCEPT !.quote_number = n] : n \in {"Q-001", "Q-0"}}
    \cup {[EmptyUpdate EXCEPT !.status = ACCEPTED]}

NextNumbers ==
    \/ \E u \in UserIds, d \in NumberCreates :
          /\ Len(quotes) < MaxListed /\ ClientOwned(u, d.client_id)
          /\ create_quote_unique(u, d)
    \/ \E u \in UserIds, q \in 1..MaxListed, d \in NumberUpdates :
          QuoteOwned(quotes, u, q) /\ update_quote_unique(u, q, d)
    \/ \E d \in TickDays : Tick(d)

SpecNumbers == Init /\ [][NextNumbers]_vars

\* C33: no two quotes of the same owner ever have the same quote_number,
\* whether the number was supplied at creation, generated by the server from
\* the time, or written by an update.
C33_NumberUniquePerOwner ==
    \A p \in DOMAIN quotes : \A q \in DOMAIN quotes :
        (p # q /\ quotes[p].user_id = quotes[q].user_id)
            => quotes[p].quote_number # quotes[q].quote_number

\* an update to a number another quote of the same owner holds has just been
\* refused; the owner has a supplied and a generated number
C33_Witness ==
    /\ last.op = "update" /\ last.status = SERVER_ERROR
    /\ \E p \in DOMAIN quotes : \E q \in DOMAIN quotes :
          /\ quotes[p].user_id = "A" /\ quotes[q].user_id = "A"
          /\ quotes[p].quote_number = "Q-001"
          /\ quotes[q].quote_number = "Q-0"

----------------------------------------------------------------------------
(* Tokens replaced by a new share link, under SpecTokens *)

\* a token a share request has handed out and no quote holds any more
OldToken(token) ==
    /\ token \in 1..next_token
    /\ \A q \in DOMAIN quotes : quotes[q].share_token # token

\* C34: a new share link for a quote puts its former token out of use: no
\* quote holds it afterwards, and a public read, PDF or sign request with a
\* token that was replaced is answered 404 and changes nothing.
C34_OldTokenDead ==
    [][/\ (Shared /\ quotes[last'.target].share_token # None)
             => \A q \in DOMAIN quotes' :
                    quotes'[q].share_token # quotes[last'.target].share_token
       /\ (/\ last' # last
           /\ last'.op \in {"public", "public_pdf", "sign"}
           /\ OldToken(last'.target))
             => (last'.status = NOT_FOUND /\ quotes' = quotes)]_vars

\* a sign with the first token of a quote, after a second share link for
\* it, was answered 404
C34_Witness ==
    /\ last.op = "sign" /\ last.status = NOT_FOUND
    /\ last.target = 1 /\ next_token = 2
    /\ \E q \in DOMAIN quotes :
          /\ quotes[q].share_token = 2
          /\ quotes[q].signed_at = None
    /\ \A q \in DOMAIN quotes : quotes[q].share_token \in {None, 2}

----------------------------------------------------------------------------
(* Share before sign, under SpecStatus *)

\* C35: a quote that has a share_token also has sent_at and
\* share_token_expires_at, whatever create, update, share and sign requests
\* were made; and a sign answered 200 is on a quote that a share request has
\* given its token and its sent_at before.
C35_SharedBeforeSigned ==
    [][/\ \A q \in DOMAIN quotes' :
             /\ quotes'[q].share_token # None
                   => /\ quotes'[q].sent_at # None
                      /\ quotes'[q].share_token_expires_at # None
             /\ quotes'[q].signed_at # None => quotes'[q].share_token # None
       /\ \A q \in DOMAIN quotes :
             quotes'[q].share_token # quotes[q].share_token
                 => (Shared /\ last'.target = q)
       /\ Signed =>
             \E q \in DOMAIN quotes :
                 /\ quotes[q].share_token = last'.target
                 /\ quotes[q].share_token \in 1..next_token
                 /\ quotes[q].sent_at # None
                 /\ quotes[q].sent_at <= now]_vars

\* a quote shared on day 0 has just been signed on day 30, its last day
C35_Witness ==
    /\ last.op = "sign" /\ last.status = OK
    /\ now = ShareTokenDays
    /\ \E q \in DOMAIN quotes :
          /\ quotes[q].share_token = last.target
          /\ quotes[q].sent_at = 0
          /\ quotes[q].share_token_expires_at = now
          /\ quotes[q].signed_at = now

----------------------------------------------------------------------------
(* Items lists that name the same item twice *)

SameIdLists ==
    {<<>>,
     <<ItemEntry(1, NoStr, 3, None, None)>>,
     <<ItemEntry(1, "Renamed", None, None, None)>>,
     <<ItemEntry(2, NoStr, None, 700, None)>>,
     <<ItemEntry(1, NoStr, 3, None, None), ItemEntry(1, "Again", 2, 500, 1)>>,
     <<ItemEntry(2, "Twice", 1, 300, None), ItemEntry(2, NoStr, 4, None, 3)>>,
     <<ItemEntry(2, NoStr, 2, None, 0), ItemEntry(1, NoStr, None, 2500, 1)>>,
     <<ItemIn(NoStr, None, 500, None)>>}

SameIdUpdates ==
    {[EmptyUpdate EXCEPT !.items = <<its>>] : its \in SameIdLists}
        \cup {[EmptyUpdate EXCEPT !.tax_rate = 10]}

NextSameId ==
    \/ Len(quotes) < MaxQuotes /\ create_quote("A", CreatePayload("cA", 20, None))
    \/ \E q \in 1..MaxQuotes, d \in SameIdUpdates : update_quote("A", q, d)

SpecSameId == Init /\ [][NextSameId]_vars

\* the entry at position i of an items payload is the first one that carries
\* the id of an item the quote has
PatchesAt(quote, incoming, i) ==
    /\ TruthyNum(incoming[i].id)
    /\ incoming[i].id \in ItemIds(quote.items)
    /\ \A j \in 1..(i - 1) : incoming[j].id # incoming[i].id

\* C36: after an update with an items list the quote has as many items as the
\* list has entries and its subtotal is the sum of the totals of those items;
\* the first entry that carries the id of an item of the quote keeps that id,
\* every other entry, a second entry with the same id included, is stored as
\* an item with an id the quote did not have.
C36_ItemsAsIncoming ==
    [][(Handled("update") /\ last'.status = OK /\ HasItems(last'.request))
          => LET quote == quotes[last'.target]
                 after == quotes'[last'.target]
                 incoming == last'.request.items[1]
             IN  /\ Len(after.items) = Len(incoming)
                 /\ after.subtotal = SumTotals(after.items)
                 /\ \A i \in 1..Len(incoming) :
                       IF PatchesAt(quote, incoming, i)
                       THEN after.items[i].id = incoming[i].id
                       ELSE after.items[i].id \notin ItemIds(quote.items)
                 /\ \A i \in 1..Len(incoming) : \A j \in 1..Len(incoming) :
                       i # j => after.items[i].id # after.items[j].id]_vars

\* an update has just sent two entries with the id of the only item of the
\* quote: the quote has two items, the patched one and a new one
C36_Witness ==
    /\ last.op = "update" /\ last.status = OK
    /\ HasItems(last.request)
    /\ Len(last.request.items[1]) = 2
    /\ last.request.items[1][1].id = 1
    /\ last.request.items[1][2].id = 1
    /\ Len(quotes[1].items) = 2
    /\ quotes[1].items[1].id = 1 /\ quotes[1].items[1].quantity = 3
    /\ quotes[1].items[2].id = 2 /\ quotes[1].items[2].description = "Again"
    /\ quotes[1].subtotal = 31000

----------------------------------------------------------------------------
(* Items lists that name an item of another quote *)

OtherItemCreates ==
    {[CreatePayload(c, 20, None) EXCEPT !.items = its] :
        c \in ClientIds, its \in {<<>>, <<ItemIn("Service", 1, 10000, 0)>>}}

OtherItemLists ==
    {<<>>,
     <<ItemEntry(1, "Taken", 2, 500, None)>>,
     <<ItemEntry(2, NoStr, 5, None, None)>>}

OtherItemUpdates ==
    {[EmptyUpdate EXCEPT !.items = <<its>>] : its \in OtherItemLists}

NextOtherItem ==
    \/ \E u \in UserIds, d \in OtherItemCreates :
          /\ Len(quotes) < MaxListed /\ ClientOwned(u, d.client_id)
          /\ create_quote(u, d)
    \/ \E u \in UserIds, q \in 1..MaxListed, d \in OtherItemUpdates :
          update_quote(u, q, d)

SpecOtherItem == Init /\ [][NextOtherItem]_vars

\* ids of the items of the quotes other than quote_id
ItemIdsOfOthers(store, quote_id) ==
    UNION {ItemIds(store[q].items) : q \in DOMAIN store \ {quote_id}}

\* C37: an update of a quote leaves every other quote as it was, items and
\* totals included; an entry that carries the id of an item of another quote
\* is stored as a new item of the updated quote, under an id no other quote
\* uses.
C37_OtherQuotesUntouched ==
    [][Handled("update")
          => /\ \A q \in DOMAIN quotes :
                   q # last'.target => quotes'[q] = quotes[q]
             /\ (last'.status = OK /\ HasItems(last'.request))
                   => LET after == quotes'[last'.target]
                          incoming == last'.request.items[1]
                          others == ItemIdsOfOthers(quotes, last'.target)
                      IN  /\ Len(after.items) = Len(incoming)
                          /\ ItemIds(after.items) \cap others = {}
                          /\ \A i \in 1..Len(incoming) :
                                incoming[i].id \in others
                                   => /\ after.items[i].id > next_item
                                      /\ after.items[i].description
                                            = OrStr(incoming[i].description, "")]_vars

\* an update of one quote has just sent the id of the item of another quote:
\* the updated quote has a new item and the other quote still has its own
C37_Witness ==
    /\ last.op = "update" /\ last.status = OK
    /\ HasItems(last.request)
    /\ Len(last.request.items[1]) = 1
    /\ \E a \in DOMAIN quotes : \E b \in DOMAIN quotes :
          /\ a = last.target /\ b # a
          /\ Len(quotes[b].items) = 1
          /\ quotes[b].items[1].id = 1
          /\ quotes[b].items[1].description = "Service"
          /\ quotes[b].subtotal = 10000
          /\ last.request.items[1][1].id = 1
          /\ Len(quotes[a].items) = 1
          /\ quotes[a].items[1].id = 2
          /\ quotes[a].items[1].description = "Taken"
          /\ quotes[a].subtotal = 1000

----------------------------------------------------------------------------
(* SpecPaid: payments and the requests that could undo them. User A creates *)
(* a quote and shares it, the client signs it, and updates are made, among *)
(* them updates that carry is_paid = false; the updates of one worker take  *)
(* two steps, the checks and the commit, and the other requests can be      *)
(* handled between the two.                                                 *)

PaidUpdates ==
    {[EmptyUpdate EXCEPT !.is_paid = <<TRUE>>],
     [EmptyUpdate EXCEPT !.is_paid = <<FALSE>>, !.status = ACCEPTED]}

NextPaid ==
    \/ Len(quotes) < MaxQuotes /\ create_quote("A", CreatePayload("cA", 20, None))
    \/ \E q \in 1..MaxQuotes : generate_share_link("A", q)
    \/ \E t \in Tokens, d \in LockSigns : sign_quote(t, d)
    \/ \E q \in 1..MaxQuotes, d \in PaidUpdates : update_quote("A", q, d)
    \/ \E q \in 1..MaxQuotes, d \in PaidUpdates : update_begin("w1", "A", q, d)
    \/ update_commit("w1")

SpecPaid == Init /\ [][NextPaid]_vars

\* C38: no step takes is_paid of a quote from true to false, whatever update
\* (also one that carries is_paid = false), share and sign requests are made
\* and however their steps interleave; no quote is removed either.
C38_PaidStaysPaid ==
    [][/\ DOMAIN quotes \subseteq DOMAIN quotes'
       /\ \A q \in DOMAIN quotes :
             quotes[q].is_paid
                => /\ quotes'[q].is_paid
                   /\ quotes'[q].payment_date = quotes[q].payment_date]_vars

\* a signed quote was set to Accepted by an update that carried
\* is_paid = false, is paid, and an update of it has just been answered 403
C38_Witness ==
    /\ last.op = "update" /\ last.status = FORBIDDEN
    /\ last.target \in DOMAIN quotes
    /\ quotes[last.target].is_paid
    /\ quotes[last.target].payment_date # None
    /\ quotes[last.target].status = ACCEPTED
    /\ quotes[last.target].signed_at # None

----------------------------------------------------------------------------
(* Status and signature, under SpecTransitions *)

\* C39: in every state reached through create, update, share and sign
\* requests, a quote has status Signed exactly when it has a signed_at and a
\* signature_data.
C39_SignedIffSignature ==
    \A q \in DOMAIN quotes :
        quotes[q].status = SIGNED
            <=> (quotes[q].signed_at # None /\ quotes[q].signature_data # NoStr)

----------------------------------------------------------------------------
(* Rejected signs, under SpecSign *)

\* the checks of sign_quote refuse the token: no quote holds it, or the quote
\* that holds it is past its expiry or has a signature
SignRefused(store, token, t) ==
    \/ \A q \in DOMAIN store : store[q].share_token # token
    \/ \E q \in DOMAIN store :
          /\ store[q].share_token = token
          /\ \/ /\ store[q].share_token_expires_at # None
                /\ store[q].share_token_expires_at < t
             \/ store[q].signed_at # None

\* C40: a sign request with a token that no quote holds, that has expired or
\* whose quote is signed is answered with an error and leaves every quote as
\* it was: status, signature evidence and updated_at included; and a sign
\* request answered with an error is one of these.
C40_RejectedSignNoWrite ==
    [][Handled("sign")
          => /\ SignRefused(quotes, last'.target, now)
                   => (last'.status # OK /\ quotes' = quotes)
             /\ last'.status # OK
                   => (SignRefused(quotes, last'.target, now) /\ quotes' = quotes)]_vars

\* a sign of an unsigned quote has just been answered 410, one day after the
\* expiry of its token; the quote is still Sent and carries no signature
C40_Witness ==
    /\ last.op = "sign" /\ last.status = GONE
    /\ \E q \in DOMAIN quotes :
          /\ quotes[q].share_token = last.target
          /\ quotes[q].share_token_expires_at < now
          /\ quotes[q].status = SENT
          /\ quotes[q].signed_at = None
          /\ quotes[q].signature_data = NoStr
          /\ quotes[q].updated_at < now

====
